---- MODULE Spec2Model ----
(***************************************************************************)
(* Realtime voice session gateway of openai-voice.                         *)
(*                                                                         *)
(* Spec   : the browser-side WebSocketAudioHandler                         *)
(*          (src/openai-voice/src/websocket-handler.ts) for one session,   *)
(*          run against the replies the proxy of server.mjs can give.      *)
(* GwSpec : the WebSocket proxy of src/openai-voice/server.mjs for one     *)
(*          client connection, run against an arbitrary client and an      *)
(*          arbitrary upstream service.                                    *)
(* StoreSpec : the conversation session store of server.mjs (the           *)
(*          /api/conversation and /api/analytics endpoints), run against   *)
(*          arbitrary requests.                                            *)
(* SentimentSpec : analyzeSentiment and /api/sentiment/analyze of          *)
(*          server.mjs, run on texts over a small vocabulary.              *)
(* PcmSpec  : the conversion of samples to 16-bit PCM in convertToPCM16   *)
(*          of websocket-handler.ts, run on frames over a grid of samples. *)
(* BrokerSpec : the start of the server process and /api/ephemeral-token   *)
(*          of server.mjs, run against an arbitrary identity provider.     *)
(***************************************************************************)
EXTENDS Integers, Sequences, FiniteSets, TLC

\* ---------------------------------------------------------------- constants
maxReconnectAttempts == 5
reconnectDelay == 1000
\* "5 daily priority items" of context/backlog.json
DailyPriorities == 5

\* ------------------------------------------------------------------- bounds
\* WebSocket objects of the client that are alive at the same time
MaxChans == 2
\* connect()/attemptReconnect() calls that are suspended at the same time
MaxTasks == 2
\* attemptReconnect() calls followed in one session
MaxTotalAttempts == 6
\* upstream sockets one client connection gets created (valid init messages)
MaxUp == 2
\* non-init messages one client sends
MaxClientMsgs == 2
\* messages the upstream sockets of one client connection deliver
MaxUpMsgs == 2
\* events one session's conversationEvents takes
MaxEvents == 1
\* samples one session's sentimentHistory takes
MaxSamples == 4
\* whitespace-separated tokens of a text given to analyzeSentiment
MaxWords == 4
\* requests /api/ephemeral-token takes
MaxMint == 2
\* captured chunks dropped in a row that are counted
MaxFailedFrames == 3
\* processAudioChunk calls that await at a time
MaxTranscoding == 2
\* samples in a decoded chunk
MaxFrame == 2

VARIABLES
  ws,                     \* this.ws: 0 is null, otherwise a channel
  reconnectAttempts,      \* this.reconnectAttempts
  isConnectedToOpenAI,    \* this.isConnectedToOpenAI
  audioContext,           \* this.audioContext is not null
  mediaRecorder,          \* this.mediaRecorder is not null
  isRecording,            \* this.isRecording
  chan,                   \* the WebSocket objects the handler created
  task,                   \* the suspended async calls (connect, attemptReconnect)
  statusLog,              \* what the last step passed to onStatusChange, in order
  phase,                  \* "idle" before connect(), "active", "stopped" after disconnect()
  attemptsStarted,        \* attemptReconnect() calls of the session
  attemptsSinceConnected, \* attemptReconnect() calls since connect() last succeeded
  lastStep                \* the event handled last: <<name, argument>>

clientVars == <<ws, reconnectAttempts, isConnectedToOpenAI, audioContext,
                mediaRecorder, isRecording, chan, task, statusLog, phase,
                attemptsStarted, attemptsSinceConnected, lastStep>>

\* The proxy of server.mjs, one client connection (wss.on('connection')).
VARIABLES
  gwWs,         \* the client socket ws: "open", "errored" (error event fired), "closed"
  openaiWs,     \* the variable openaiWs: 0 is null, otherwise an upstream socket
  up,           \* the upstream sockets created for this connection
  nextUp,       \* the next upstream socket to be created
  pendingInit,  \* init handlers suspended at 'await import'
  clientMsgs,   \* non-init messages received from the client so far
  fwd,          \* per upstream socket, the client messages sent on it, in order
  upMsgs,       \* messages received from the upstream sockets so far
  relayed,      \* the upstream messages passed to ws.send, in order
  gwOut,        \* the messages the last step passed to ws.send, in order
  gwLast        \* the event handled last: <<name, argument>>

gwVars == <<gwWs, openaiWs, up, nextUp, pendingInit, clientMsgs, fwd, upMsgs,
            relayed, gwOut, gwLast>>

\* The session store of server.mjs.
VARIABLES
  contextData,           \* "null" until loadContext() delivered, then "loaded"
  conversationSessions,  \* the Map: id -> session, NoSession where it has none
  resp                   \* the response to the last request

storeVars == <<contextData, conversationSessions, resp>>

\* POST /api/sentiment/analyze of server.mjs.
VARIABLES
  text,       \* req.body.text of the last request, as its whitespace-separated tokens
  sentiment   \* the response to it

sentimentVars == <<text, sentiment>>

\* The start of the process and POST /api/ephemeral-token of server.mjs.
VARIABLES
  apiKey,   \* OPENAI_API_KEY: "set" or "missing"
  server,   \* "starting", then "listening"
  mint      \* the requests for an ephemeral token

brokerVars == <<apiKey, server, mint>>

\* The recorders and the audio frames of the client handler (setupMediaRecorder,
\* 243-295, and processAudioChunk, 297-327).
VARIABLES
  failedFrames,     \* captured chunks dropped since the last one that was sent
  transcoding,      \* the processAudioChunk calls that await, in capture order
  recorder,         \* state of the recorder this.mediaRecorder names
  orphanRecording   \* a recorder this.mediaRecorder named before is recording

audioVars == <<failedFrames, transcoding, recorder, orphanRecording>>

\* The conversion of decoded audio to 16-bit PCM (convertToPCM16, 329-352).
VARIABLES
  channelData,   \* the samples of channel 0 of the decoded chunk
  pcm16          \* the Int16Array the conversion filled

pcmVars == <<channelData, pcm16>>

\* The variables of the specifications that follow the session store.
moreVars == <<sentimentVars, brokerVars, audioVars, pcmVars>>

vars == <<clientVars, gwVars, storeVars, moreVars>>

ChanIds == 1..MaxChans
TaskIds == 1..MaxTasks
UpIds == 1..MaxUp

\* A WebSocket object that fired its close event (readyState CLOSED).
ClosedChan ==
  [st |-> "closed", onopen |-> "init", onerror |-> "status", waiter |-> 0,
   first |-> "none", gw |-> "noinit"]

FreeTask == [pc |-> "free", kind |-> "user", n |-> 0]

Status(s, m) == [status |-> s, msg |-> m]

\* ======================================================================
\* The session store: conversationSessions, server.mjs 387-548
\* ======================================================================
\* Scores and confidences are counted in tenths: 5 is 0.5.

\* The session ids /api/conversation/start hands out. The handlers read and
\* write only the session they look up (451, 520), so one session is followed.
SessionIds == {"session_1"}
\* The ids a request can name: those, and one that is never handed out.
RequestIds == SessionIds \cup {"session_x"}

\* backlog.ceo_daily_priorities of the loaded context
BacklogItems == [i \in 1..DailyPriorities |-> i]

\* x || d for a number and for a string
OrNum(x, d) == IF x = 0 THEN d ELSE x
OrStr(x, d) == IF x = "" THEN d ELSE x

\* No 'event', 'sentiment', 'backlogProgress' in the request body.
NoEvent == [type |-> "", data |-> FALSE]
NoSentiment == [present |-> FALSE, score |-> 0, emotion |-> "", confidence |-> 0]
NoProgress == [present |-> FALSE, completed |-> <<>>]

\* event of the body: what demo-test.mjs sends (56, 60, 68), and a focus_change
\* that carries no data.
EventInputs ==
  {[type |-> "ai_response", data |-> TRUE],
   [type |-> "interruption", data |-> TRUE],
   [type |-> "focus_change", data |-> TRUE],
   [type |-> "focus_change", data |-> FALSE]}

\* sentiment of the body: a result of /api/sentiment/analyze, an object with a
\* score only, and an object of the caller's own making.
SentimentInputs ==
  {[present |-> TRUE, score |-> 5, emotion |-> "positive", confidence |-> 7],
   [present |-> TRUE, score |-> 2, emotion |-> "", confidence |-> 0],
   [present |-> TRUE, score |-> -20, emotion |-> "confused", confidence |-> 15]}

\* backlogProgress of the body: nothing completed, the first item completed, and
\* an item (0) that is none of the backlog.
ProgressInputs ==
  {[present |-> TRUE, completed |-> <<>>],
   [present |-> TRUE, completed |-> <<1>>],
   [present |-> TRUE, completed |-> <<0>>]}

Body(e, s, b) == [event |-> e, sentiment |-> s, backlogProgress |-> b]

\* The request bodies followed: one field, none, or all three.
Bodies ==
  {Body(e, NoSentiment, NoProgress) : e \in EventInputs \cup {NoEvent}}
    \cup {Body(NoEvent, s, NoProgress) : s \in SentimentInputs}
    \cup {Body(NoEvent, NoSentiment, b) : b \in ProgressInputs}
    \cup {Body(e, s, [present |-> TRUE, completed |-> <<1>>]) :
            e \in {ev \in EventInputs : ev.type # "ai_response"},
            s \in {sn \in SentimentInputs : sn.score = 5}}

\* An id the Map holds no session for.
NoSession ==
  [exists |-> FALSE, backlogItems |-> <<>>, completedItems |-> <<>>,
   currentFocus |-> "", sentimentHistory |-> <<>>, interruptionCount |-> 0,
   engagementLevel |-> "", conversationEvents |-> <<>>]

\* A session that starts with engagementLevel 'active'
NewSession_ActiveLevel(items) ==
  [exists |-> TRUE, backlogItems |-> items, completedItems |-> <<>>,
   currentFocus |-> "Daily Briefing", sentimentHistory |-> <<>>,
   interruptionCount |-> 0, engagementLevel |-> "active",
   conversationEvents |-> <<>>]

\* The session object of /api/conversation/start, 431-442
NewSession(items) ==
  [exists |-> TRUE, backlogItems |-> items, completedItems |-> <<>>,
   currentFocus |-> "Daily Briefing", sentimentHistory |-> <<>>,
   interruptionCount |-> 0, engagementLevel |-> "baseline",
   conversationEvents |-> <<>>]

StoreInit ==
  /\ contextData = "null"
  /\ conversationSessions = [id \in RequestIds |-> NoSession]
  /\ resp = [op |-> "none", id |-> "", status |-> 0, completed |-> 0,
             total |-> 0, level |-> ""]


\* An upstream socket that was not created yet.
NoUp == [st |-> "none", endedClean |-> FALSE]

GwInit ==
  /\ gwWs = "open"
  /\ openaiWs = 0
  /\ up = [u \in UpIds |-> NoUp]
  /\ nextUp = 1
  /\ pendingInit = 0
  /\ clientMsgs = 0
  /\ fwd = [u \in UpIds |-> <<>>]
  /\ upMsgs = 0
  /\ relayed = <<>>
  /\ gwOut = <<>>
  /\ gwLast = <<"connection", 0>>

ClientInit ==
  /\ ws = 0
  /\ reconnectAttempts = 0
  /\ isConnectedToOpenAI = FALSE
  /\ audioContext = FALSE
  /\ mediaRecorder = FALSE
  /\ isRecording = FALSE
  /\ chan = [c \in ChanIds |-> ClosedChan]
  /\ task = [t \in TaskIds |-> FreeTask]
  /\ statusLog = <<>>
  /\ phase = "idle"
  /\ attemptsStarted = 0
  /\ attemptsSinceConnected = 0
  /\ lastStep = <<"Init", 0>>

\* No text was analysed yet.
NoSentimentResult ==
  [status |-> 0, score |-> 0, emotion |-> "", confidence |-> 0, indicators |-> <<>>]

SentimentInit ==
  /\ text = <<>>
  /\ sentiment = NoSentimentResult

MintIds == 1..MaxMint

\* A request for an ephemeral token that has not come in.
NoMint ==
  [pc |-> "free", scope |-> "absent", calls |-> 0, upstream |-> 0,
   json |-> FALSE, status |-> 0]

BrokerInit ==
  /\ apiKey = "set"
  /\ server = "starting"
  /\ mint = [r \in MintIds |-> NoMint]

AudioInit ==
  /\ failedFrames = 0
  /\ transcoding = <<>>
  /\ recorder = "none"
  /\ orphanRecording = FALSE

\* No chunk was decoded yet.
PcmInit == channelData = <<>> /\ pcm16 = <<>>

Init ==
  /\ ClientInit /\ GwInit /\ StoreInit /\ SentimentInit /\ BrokerInit
  /\ AudioInit /\ PcmInit

\* --------------------------------------------------------------- allocation
HasFreeChan == \E c \in ChanIds : chan[c].st = "closed"
NewChan == CHOOSE c \in ChanIds :
             chan[c].st = "closed" /\ \A d \in ChanIds : d < c => chan[d].st # "closed"
HasFreeTask == \E t \in TaskIds : task[t].pc = "free"
NewTask == CHOOSE t \in TaskIds :
             task[t].pc = "free" /\ \A u \in TaskIds : u < t => task[u].pc # "free"

\* WebSocket.send(): discarded unless the socket is OPEN. The proxy creates its
\* upstream connection when it is sent an init (server.mjs, init branch).
SendOn(ch, c, kind) ==
  IF c = 0 \/ ch[c].st # "open" THEN ch
  ELSE [ch EXCEPT ![c].first = IF @ = "none" THEN kind ELSE @,
                  ![c].gw = IF kind = "init" /\ @ = "noinit" THEN "awaiting" ELSE @]

\* ------------------------------------------------------- connect(), 36-75
\* connect() up to its first await: the status callback, then getUserMedia.
ConnectStart(t, k, n) ==
  /\ task' = [task EXCEPT ![t] = [pc |-> "gum", kind |-> k, n |-> n]]
  /\ statusLog' = <<Status("connecting", "Connecting")>>

\* The catch of connect() (70-74) and, for a reconnect, the catch of
\* attemptReconnect() (121-126), which run one after the other.
FailStatuses(t) ==
  <<Status("error", "ConnectionFailed")>> \o
  (IF task[t].kind = "reconnect" /\ reconnectAttempts >= maxReconnectAttempts
     THEN <<Status("error", "MaxReached")>> ELSE <<>>)

ConnectFail(t) ==
  /\ task' = [task EXCEPT ![t] = FreeTask]
  /\ statusLog' = FailStatuses(t)

\* connect() after waitForConnection resolved (67-68).
ConnectSucceed(t) ==
  /\ task' = [task EXCEPT ![t] = FreeTask]
  /\ statusLog' = <<Status("connected", "Connected")>>
  /\ reconnectAttempts' = 0
  /\ attemptsSinceConnected' = 0

UserConnect ==
  /\ phase = "idle"
  /\ HasFreeTask
  /\ ConnectStart(NewTask, "user", 0)
  /\ phase' = "active"
  /\ lastStep' = <<"UserConnect", 0>>
  /\ UNCHANGED <<gwVars, storeVars, moreVars>>
  /\ UNCHANGED <<ws, reconnectAttempts, isConnectedToOpenAI, audioContext,
                 mediaRecorder, isRecording, chan, attemptsStarted,
                 attemptsSinceConnected>>

\* getUserMedia rejects: nothing was created yet.
GumReject(t) ==
  /\ task[t].pc = "gum"
  /\ ConnectFail(t)
  /\ lastStep' = <<"GumReject", t>>
  /\ UNCHANGED <<gwVars, storeVars, moreVars>>
  /\ UNCHANGED <<ws, reconnectAttempts, isConnectedToOpenAI, audioContext,
                 mediaRecorder, isRecording, chan, phase, attemptsStarted,
                 attemptsSinceConnected>>

\* setupMediaRecorder (243-295): rec is "ok", "ctorThrows" (new MediaRecorder
\* throws) or "startThrows" (mediaRecorder.start throws, only when it is called).
\* The recorder created replaces the one this.mediaRecorder named, which is
\* not stopped; startRecording (290-295) starts the new one unless isRecording.
RecorderAfter(rec) ==
  /\ mediaRecorder' = (mediaRecorder \/ rec # "ctorThrows")
  /\ isRecording' = (isRecording \/ rec = "ok")
  /\ recorder' = CASE rec = "ctorThrows" -> recorder
                   [] rec = "ok" /\ ~isRecording -> "recording"
                   [] OTHER -> "inactive"
  /\ orphanRecording' =
       (orphanRecording \/ (rec # "ctorThrows" /\ recorder = "recording"))

\* getUserMedia resolves: lines 52-65. The socket is created with the handlers of
\* setupWebSocketHandlers; waitForConnection then replaces onopen and onerror.
GumResolve(t, rec) ==
  /\ task[t].pc = "gum"
  /\ HasFreeChan
  /\ rec = "startThrows" => ~isRecording
  /\ audioContext' = TRUE
  /\ ws' = NewChan
  /\ RecorderAfter(rec)
  /\ IF rec = "ok"
       THEN /\ chan' = [chan EXCEPT ![NewChan] =
                          [st |-> "connecting", onopen |-> "resolve",
                           onerror |-> "reject", waiter |-> t,
                           first |-> "none", gw |-> "noinit"]]
            /\ task' = [task EXCEPT ![t].pc = "wait"]
            /\ statusLog' = <<>>
       ELSE /\ chan' = [chan EXCEPT ![NewChan] =
                          [st |-> "connecting", onopen |-> "init",
                           onerror |-> "status", waiter |-> 0,
                           first |-> "none", gw |-> "noinit"]]
            /\ ConnectFail(t)
  /\ lastStep' = <<"GumResolve", t>>
  /\ UNCHANGED <<gwVars, storeVars, sentimentVars, brokerVars, pcmVars>>
  /\ UNCHANGED <<failedFrames, transcoding>>
  /\ UNCHANGED <<reconnectAttempts, isConnectedToOpenAI, phase, attemptsStarted,
                 attemptsSinceConnected>>

\* The 10 s timer of waitForConnection (366-368) fires first: the promise is
\* rejected, the socket is left as it is.
WaitTimeout(c) ==
  /\ chan[c].st \in {"connecting", "failing"}
  /\ chan[c].waiter # 0
  /\ ConnectFail(chan[c].waiter)
  /\ chan' = [chan EXCEPT ![c].waiter = 0]
  /\ lastStep' = <<"WaitTimeout", c>>
  /\ UNCHANGED <<gwVars, storeVars, moreVars>>
  /\ UNCHANGED <<ws, reconnectAttempts, isConnectedToOpenAI, audioContext,
                 mediaRecorder, isRecording, phase, attemptsStarted,
                 attemptsSinceConnected>>

\* ------------------------------------------------- socket events, 77-111
\* open: the onopen that is installed runs.
ChanOpen(c) ==
  /\ chan[c].st = "connecting"
  /\ LET opened == [chan EXCEPT ![c].st = "open", ![c].waiter = 0] IN
     IF chan[c].onopen = "resolve"
       THEN /\ chan' = opened
            /\ IF chan[c].waiter # 0
                 THEN ConnectSucceed(chan[c].waiter)
                 ELSE /\ statusLog' = <<>>
                      /\ UNCHANGED <<task, reconnectAttempts, attemptsSinceConnected>>
       ELSE /\ chan' = SendOn(opened, ws, "init")
            /\ statusLog' = <<>>
            /\ UNCHANGED <<task, reconnectAttempts, attemptsSinceConnected>>
  /\ lastStep' = <<"ChanOpen", c>>
  /\ UNCHANGED <<gwVars, storeVars, moreVars>>
  /\ UNCHANGED <<ws, isConnectedToOpenAI, audioContext, mediaRecorder, isRecording,
                 phase, attemptsStarted>>

\* error: the connection failed (or close() was called before it was
\* established); the close event follows.
ChanError(c) ==
  /\ chan[c].st \in {"connecting", "open", "failing"}
  /\ chan' = [chan EXCEPT ![c].st = "failed", ![c].waiter = 0]
  /\ IF chan[c].onerror = "reject"
       THEN IF chan[c].waiter # 0
              THEN ConnectFail(chan[c].waiter)
              ELSE statusLog' = <<>> /\ UNCHANGED task
       ELSE statusLog' = <<Status("error", "WebSocketError")>> /\ UNCHANGED task
  /\ lastStep' = <<"ChanError", c>>
  /\ UNCHANGED <<gwVars, storeVars, moreVars>>
  /\ UNCHANGED <<ws, reconnectAttempts, isConnectedToOpenAI, audioContext,
                 mediaRecorder, isRecording, phase, attemptsStarted,
                 attemptsSinceConnected>>

\* onclose without its bound on the number of attempts
ShouldReconnect_NoBound(wasClean) == ~wasClean

\* onclose, line 102
ShouldReconnect(wasClean) ==
  ~wasClean /\ reconnectAttempts < maxReconnectAttempts

\* attemptReconnect() up to its await of the backoff timer (114-117).
AttemptReconnectStart ==
  /\ reconnectAttempts' = reconnectAttempts + 1
  /\ task' = [task EXCEPT ![NewTask] =
                [pc |-> "backoff", kind |-> "reconnect", n |-> reconnectAttempts + 1]]
  /\ attemptsStarted' = attemptsStarted + 1
  /\ attemptsSinceConnected' = attemptsSinceConnected + 1

\* close: onclose (98-105).
ChanClose(c, wasClean) ==
  /\ \/ chan[c].st \in {"open", "closing"}
     \/ chan[c].st = "failed" /\ ~wasClean
  /\ chan' = [chan EXCEPT ![c] = ClosedChan]
  /\ IF ShouldReconnect(wasClean)
       THEN /\ HasFreeTask
            /\ attemptsStarted < MaxTotalAttempts
            /\ AttemptReconnectStart
            /\ statusLog' = <<Status("disconnected", "Closed"),
                              Status("connecting", "Reconnecting")>>
       ELSE /\ statusLog' = <<Status("disconnected", "Closed")>>
            /\ UNCHANGED <<reconnectAttempts, task, attemptsStarted,
                           attemptsSinceConnected>>
  /\ lastStep' = <<"ChanClose", IF wasClean THEN 1000 ELSE 1006>>
  /\ UNCHANGED <<gwVars, storeVars, moreVars>>
  /\ UNCHANGED <<ws, isConnectedToOpenAI, audioContext, mediaRecorder, isRecording,
                 phase>>

\* The delay the reconnect numbered n waits (117).
BackoffDelay_Doubling(n) == reconnectDelay * 2 ^ (n - 1)
BackoffDelay(n) == reconnectDelay * n

\* The backoff timer fires: attemptReconnect calls connect() (120).
BackoffElapsed(t) ==
  /\ task[t].pc = "backoff"
  /\ ConnectStart(t, "reconnect", task[t].n)
  /\ lastStep' = <<"BackoffElapsed", BackoffDelay(task[t].n)>>
  /\ UNCHANGED <<gwVars, storeVars, moreVars>>
  /\ UNCHANGED <<ws, reconnectAttempts, isConnectedToOpenAI, audioContext,
                 mediaRecorder, isRecording, chan, phase, attemptsStarted,
                 attemptsSinceConnected>>

\* ------------------------------------ messages of the proxy, 89-96, 169-241
\* {type: 'connected'}: the proxy sends it when the upstream socket it created
\* for an init opens (server.mjs 725-730).
RecvConnected(c) ==
  /\ chan[c].st = "open"
  /\ chan[c].gw = "awaiting"
  /\ isConnectedToOpenAI' = TRUE
  /\ statusLog' = <<Status("connected", "Connected")>>
  /\ chan' = SendOn([chan EXCEPT ![c].gw = "active"], ws, "session.update")
  /\ lastStep' = <<"RecvConnected", c>>
  /\ UNCHANGED <<gwVars, storeVars, moreVars>>
  /\ UNCHANGED <<ws, reconnectAttempts, audioContext, mediaRecorder, isRecording,
                 task, phase, attemptsStarted, attemptsSinceConnected>>

\* {type: 'disconnected', code}: the proxy sends it when its upstream socket
\* closes (server.mjs 750-757); the handler does not read the code.
RecvDisconnected(c, code) ==
  /\ chan[c].st = "open"
  /\ chan[c].gw \in {"awaiting", "active"}
  /\ isConnectedToOpenAI' = FALSE
  /\ statusLog' = <<Status("disconnected", "Closed")>>
  /\ chan' = [chan EXCEPT ![c].gw = "down"]
  /\ lastStep' = <<"RecvDisconnected", code>>
  /\ UNCHANGED <<gwVars, storeVars, moreVars>>
  /\ UNCHANGED <<ws, reconnectAttempts, audioContext, mediaRecorder, isRecording,
                 task, phase, attemptsStarted, attemptsSinceConnected>>

\* {type: 'error'}: an answer of the proxy to something the client sent
\* (server.mjs 705-708, 768-771, 776-779) or an upstream error (740-747).
RecvError(c) ==
  /\ chan[c].st = "open"
  /\ chan[c].first # "none"
  /\ statusLog' = <<Status("error", "ServerError")>>
  /\ lastStep' = <<"RecvError", c>>
  /\ UNCHANGED <<gwVars, storeVars, moreVars>>
  /\ UNCHANGED <<ws, reconnectAttempts, isConnectedToOpenAI, audioContext,
                 mediaRecorder, isRecording, chan, task, phase, attemptsStarted,
                 attemptsSinceConnected>>

\* Any other upstream message the proxy relays (server.mjs 732-735).
RecvOther(c) ==
  /\ chan[c].st = "open"
  /\ chan[c].gw = "active"
  /\ statusLog' = <<>>
  /\ lastStep' = <<"RecvOther", c>>
  /\ UNCHANGED <<gwVars, storeVars, moreVars>>
  /\ UNCHANGED <<ws, reconnectAttempts, isConnectedToOpenAI, audioContext,
                 mediaRecorder, isRecording, chan, task, phase, attemptsStarted,
                 attemptsSinceConnected>>

\* ---------------------------------------------------------- client sends
\* The guard of processAudioChunk (298) and of sendTextMessage (395): this.ws is
\* OPEN and the proxy reported 'connected'.
CanSend == ws # 0 /\ chan[ws].st = "open" /\ isConnectedToOpenAI

\* sendTextMessage (394-415)
ClientSend(kind) ==
  /\ CanSend
  /\ chan' = SendOn(chan, ws, kind)
  /\ statusLog' = <<>>
  /\ lastStep' = <<"ClientSend", ws>>
  /\ UNCHANGED <<gwVars, storeVars, moreVars>>
  /\ UNCHANGED <<ws, reconnectAttempts, isConnectedToOpenAI, audioContext,
                 mediaRecorder, isRecording, task, phase, attemptsStarted,
                 attemptsSinceConnected>>

\* ------------------------------------------------- the recorder, 243-295
\* Some recorder is recording and delivers chunks.
Capturing == recorder = "recording" \/ orphanRecording

\* mediaRecorder.stop() (466): a recorder that records becomes inactive; on an
\* inactive one nothing happens.
StopCalled(st) == IF st = "recording" THEN "inactive" ELSE st

\* ------------------------------------------------ audio frames, 264-270, 297-352
\* A processAudioChunk call that passed its guard and awaits chunk.arrayBuffer()
\* or decodeAudioData; late: a chunk captured after this one was sent already.
InFlight == [late |-> FALSE]

Without(seq, i) == SubSeq(seq, 1, i - 1) \o SubSeq(seq, i + 1, Len(seq))

Overtaken(seq, i) ==
  [j \in DOMAIN seq |-> IF j < i THEN [late |-> TRUE] ELSE seq[j]]

\* ondataavailable (264-270) with a chunk that is not empty: processAudioChunk
\* passes its guard (298-301) and runs up to its first await. (A call that
\* returns at the guard changes nothing.)
ChunkCaptured ==
  /\ Capturing
  /\ CanSend
  /\ Len(transcoding) < MaxTranscoding
  /\ transcoding' = Append(transcoding, InFlight)
  /\ statusLog' = <<>>
  /\ lastStep' = <<"ChunkCaptured", Len(transcoding')>>
  /\ UNCHANGED <<gwVars, storeVars, sentimentVars, brokerVars, pcmVars>>
  /\ UNCHANGED <<failedFrames, recorder, orphanRecording>>
  /\ UNCHANGED <<ws, reconnectAttempts, isConnectedToOpenAI, audioContext,
                 mediaRecorder, isRecording, chan, task, phase, attemptsStarted,
                 attemptsSinceConnected>>

\* this.ws.send (321) hands the message to a channel that is OPEN.
Goes == ws # 0 /\ chan[ws].st = "open"

\* The awaits of the call for the i-th chunk in flight are over and its append
\* message is sent (311-321), on the channel this.ws names by now.
ChunkAppended(i) ==
  /\ i \in DOMAIN transcoding
  /\ Goes
  /\ chan' = SendOn(chan, ws, "audio")
  /\ transcoding' = Without(Overtaken(transcoding, i), i)
  /\ failedFrames' = 0
  /\ statusLog' = <<>>
  /\ lastStep' = <<"ChunkAppended", i>>
  /\ UNCHANGED <<gwVars, storeVars, sentimentVars, brokerVars, pcmVars>>
  /\ UNCHANGED <<recorder, orphanRecording>>
  /\ UNCHANGED <<ws, reconnectAttempts, isConnectedToOpenAI, audioContext,
                 mediaRecorder, isRecording, task, phase, attemptsStarted,
                 attemptsSinceConnected>>

\* The same with this.ws null or not OPEN by now: send throws into the catch
\* (324-326), or the channel discards the message.
ChunkDiscarded(i) ==
  /\ i \in DOMAIN transcoding
  /\ ~Goes
  /\ transcoding' = Without(transcoding, i)
  /\ statusLog' = <<>>
  /\ lastStep' = <<"ChunkDiscarded", i>>
  /\ UNCHANGED <<gwVars, storeVars, sentimentVars, brokerVars, pcmVars>>
  /\ UNCHANGED <<failedFrames, recorder, orphanRecording>>
  /\ UNCHANGED <<ws, reconnectAttempts, isConnectedToOpenAI, audioContext,
                 mediaRecorder, isRecording, chan, task, phase, attemptsStarted,
                 attemptsSinceConnected>>

\* The i-th chunk in flight cannot be transcoded: chunk.arrayBuffer() rejects
\* and the catch (324-326) logs, or decodeAudioData rejects (or there is no
\* audio context), convertToPCM16 (329-352) returns null and the send is
\* skipped.
AudioChunkDropped_Disconnects(i) ==
  /\ i \in DOMAIN transcoding
  /\ failedFrames < MaxFailedFrames
  /\ failedFrames' = failedFrames + 1
  /\ transcoding' = Without(transcoding, i)
  /\ isConnectedToOpenAI' = FALSE
  /\ statusLog' = <<>>
  /\ lastStep' = <<"AudioChunkDropped", i>>
  /\ UNCHANGED <<gwVars, storeVars, sentimentVars, brokerVars, pcmVars>>
  /\ UNCHANGED <<recorder, orphanRecording>>
  /\ UNCHANGED <<ws, reconnectAttempts, audioContext, mediaRecorder, isRecording,
                 chan, task, phase, attemptsStarted, attemptsSinceConnected>>

AudioChunkDropped(i) ==
  /\ i \in DOMAIN transcoding
  /\ failedFrames < MaxFailedFrames
  /\ failedFrames' = failedFrames + 1
  /\ transcoding' = Without(transcoding, i)
  /\ statusLog' = <<>>
  /\ lastStep' = <<"AudioChunkDropped", i>>
  /\ UNCHANGED <<gwVars, storeVars, sentimentVars, brokerVars, pcmVars>>
  /\ UNCHANGED <<recorder, orphanRecording>>
  /\ UNCHANGED <<ws, reconnectAttempts, isConnectedToOpenAI, audioContext,
                 mediaRecorder, isRecording, chan, task, phase, attemptsStarted,
                 attemptsSinceConnected>>

\* A 'response.audio.delta' message (220-226) whose audio cannot be decoded:
\* playAudioDelta (417-462) catches the failure of decodeAudioData, tries the
\* blob fallback, and catches its failure too.
AudioDeltaDropped(c) ==
  /\ chan[c].st = "open"
  /\ chan[c].gw = "active"
  /\ audioContext
  /\ statusLog' = <<>>
  /\ lastStep' = <<"AudioDeltaDropped", c>>
  /\ UNCHANGED <<gwVars, storeVars, moreVars>>
  /\ UNCHANGED <<ws, reconnectAttempts, isConnectedToOpenAI, audioContext,
                 mediaRecorder, isRecording, chan, task, phase, attemptsStarted,
                 attemptsSinceConnected>>

\* ------------------------------------------------------ disconnect(), 464-485
\* ws.close(1000): an OPEN socket starts its closing handshake; a CONNECTING one
\* fails its connection (an error event, then an unclean close event).
CloseCalled(st) ==
  CASE st = "open" -> "closing"
    [] st = "connecting" -> "failing"
    [] OTHER -> st

Disconnect ==
  /\ phase = "active"
  /\ phase' = "stopped"
  /\ chan' = IF ws = 0 THEN chan ELSE [chan EXCEPT ![ws].st = CloseCalled(@)]
  /\ ws' = 0
  /\ audioContext' = FALSE
  /\ isRecording' = FALSE
  /\ reconnectAttempts' = 0
  /\ attemptsSinceConnected' = 0
  /\ isConnectedToOpenAI' = FALSE
  /\ statusLog' = <<>>
  /\ recorder' = IF mediaRecorder /\ isRecording
                   THEN StopCalled(recorder) ELSE recorder
  /\ lastStep' = <<"Disconnect", 0>>
  /\ UNCHANGED <<gwVars, storeVars, sentimentVars, brokerVars, pcmVars>>
  /\ UNCHANGED <<failedFrames, transcoding, orphanRecording>>
  /\ UNCHANGED <<mediaRecorder, task, attemptsStarted>>

ClientNext ==
  \/ UserConnect
  \/ \E t \in TaskIds : GumReject(t)
  \/ \E t \in TaskIds, rec \in {"ok", "ctorThrows", "startThrows"} : GumResolve(t, rec)
  \/ \E c \in ChanIds : WaitTimeout(c)
  \/ \E c \in ChanIds : ChanOpen(c)
  \/ \E c \in ChanIds : ChanError(c)
  \/ \E c \in ChanIds, wasClean \in BOOLEAN : ChanClose(c, wasClean)
  \/ \E t \in TaskIds : BackoffElapsed(t)
  \/ \E c \in ChanIds : RecvConnected(c)
  \/ \E c \in ChanIds, code \in {1000, 1006} : RecvDisconnected(c, code)
  \/ \E c \in ChanIds : RecvError(c)
  \/ \E c \in ChanIds : RecvOther(c)
  \/ ClientSend("text")
  \/ ChunkCaptured
  \/ \E i \in 1..MaxTranscoding : ChunkAppended(i)
  \/ \E i \in 1..MaxTranscoding : ChunkDiscarded(i)
  \/ \E i \in 1..MaxTranscoding : AudioChunkDropped(i)
  \/ \E c \in ChanIds : AudioDeltaDropped(c)
  \/ Disconnect

Next == ClientNext

Spec == Init /\ [][Next]_vars

\* ======================================================================
\* The proxy: wss.on('connection'), server.mjs 691-796
\* ======================================================================

\* ws.send(JSON.stringify({type: t, ...}))
GwSend(t) == <<t>>

\* openaiWs.close() of the ws library: an OPEN socket starts its closing
\* handshake; a CONNECTING one aborts its handshake (an 'error' event, then a
\* 'close' event).
UpCloseCalled(st) ==
  CASE st = "open" -> "closing"
    [] st = "connecting" -> "aborting"
    [] OTHER -> st

\* ws.on('close') and ws.on('error'), 783-795: if (openaiWs) openaiWs.close()
CloseUpstream ==
  IF openaiWs # 0 THEN [up EXCEPT ![openaiWs].st = UpCloseCalled(@)] ELSE up

\* The check of the init branch, 704
TokenValid(tok) == tok = "valid"

\* The forward branch testing only that openaiWs was assigned
CanForward_NoReadyState == openaiWs # 0

\* The forward branch testing readyState against 0 (CONNECTING)
CanForward_Connecting == openaiWs # 0 /\ up[openaiWs].st = "connecting"

\* The forward branch's test, 763
CanForward == openaiWs # 0 /\ up[openaiWs].st = "open"

\* ws.on('message') with {type: 'init'}: 701-713, up to 'await import'.
\* tok is "missing", "badPrefix", "nonString" (startsWith is no function: the
\* catch of 774-780 answers) or "valid".
GwClientInit(tok) ==
  /\ gwWs = "open"
  /\ IF TokenValid(tok)
       THEN /\ nextUp + pendingInit <= MaxUp
            /\ pendingInit' = pendingInit + 1
            /\ gwOut' = <<>>
       ELSE /\ pendingInit' = pendingInit
            /\ gwOut' = GwSend("error")
  /\ gwLast' = <<IF TokenValid(tok) THEN "init" ELSE "invalidInit", 0>>
  /\ UNCHANGED <<clientVars, storeVars, moreVars>>
  /\ UNCHANGED <<upMsgs, relayed>>
  /\ UNCHANGED <<gwWs, openaiWs, up, nextUp, clientMsgs, fwd>>

\* The init handler reporting 'connected' as soon as it created the socket
GwInitResume_EagerConnected ==
  /\ pendingInit > 0
  /\ pendingInit' = pendingInit - 1
  /\ up' = [up EXCEPT ![nextUp].st = "connecting"]
  /\ openaiWs' = nextUp
  /\ nextUp' = nextUp + 1
  /\ gwOut' = GwSend("connected")
  /\ gwLast' = <<"initResume", nextUp>>
  /\ UNCHANGED <<clientVars, storeVars, moreVars>>
  /\ UNCHANGED <<upMsgs, relayed>>
  /\ UNCHANGED <<gwWs, clientMsgs, fwd>>

\* The init handler after 'await import': 714-759. It creates the upstream socket
\* and assigns openaiWs, whatever became of the client socket meanwhile.
GwInitResume ==
  /\ pendingInit > 0
  /\ pendingInit' = pendingInit - 1
  /\ up' = [up EXCEPT ![nextUp].st = "connecting"]
  /\ openaiWs' = nextUp
  /\ nextUp' = nextUp + 1
  /\ gwOut' = <<>>
  /\ gwLast' = <<"initResume", nextUp>>
  /\ UNCHANGED <<clientVars, storeVars, moreVars>>
  /\ UNCHANGED <<upMsgs, relayed>>
  /\ UNCHANGED <<gwWs, clientMsgs, fwd>>

\* ws.on('message') with any other parseable message: 762-772.
GwClientMessage ==
  /\ gwWs = "open"
  /\ clientMsgs < MaxClientMsgs
  /\ clientMsgs' = clientMsgs + 1
  /\ IF CanForward
       THEN /\ fwd' = [fwd EXCEPT ![openaiWs] = Append(@, clientMsgs + 1)]
            /\ gwOut' = <<>>
       ELSE /\ fwd' = fwd
            /\ gwOut' = GwSend("error")
  /\ gwLast' = <<"message", clientMsgs + 1>>
  /\ UNCHANGED <<clientVars, storeVars, moreVars>>
  /\ UNCHANGED <<upMsgs, relayed>>
  /\ UNCHANGED <<gwWs, openaiWs, up, nextUp, pendingInit>>

\* ws.on('message') with a message JSON.parse rejects: the catch, 774-780.
GwClientMalformed ==
  /\ gwWs = "open"
  /\ gwOut' = GwSend("error")
  /\ gwLast' = <<"malformed", 0>>
  /\ UNCHANGED <<clientVars, storeVars, moreVars>>
  /\ UNCHANGED <<upMsgs, relayed>>
  /\ UNCHANGED <<gwWs, openaiWs, up, nextUp, pendingInit, clientMsgs, fwd>>

\* openaiWs.on('open'), 725-730
GwUpstreamOpen(u) ==
  /\ up[u].st = "connecting"
  /\ up' = [up EXCEPT ![u].st = "open"]
  /\ gwOut' = GwSend("connected")
  /\ gwLast' = <<"upstreamOpen", u>>
  /\ UNCHANGED <<clientVars, storeVars, moreVars>>
  /\ UNCHANGED <<upMsgs, relayed>>
  /\ UNCHANGED <<gwWs, openaiWs, nextUp, pendingInit, clientMsgs, fwd>>

\* openaiWs.on('message'), 732-735
GwUpstreamMessage(u) ==
  /\ up[u].st \in {"open", "closing"}
  /\ upMsgs < MaxUpMsgs
  /\ upMsgs' = upMsgs + 1
  /\ relayed' = Append(relayed, upMsgs + 1)
  /\ gwOut' = GwSend("upstream")
  /\ gwLast' = <<"upstreamMessage", u>>
  /\ UNCHANGED <<clientVars, storeVars, moreVars>>
  /\ UNCHANGED <<gwWs, openaiWs, up, nextUp, pendingInit, clientMsgs, fwd>>

\* openaiWs.on('error'), 737-748: the handshake was rejected or aborted, or the
\* connection broke; the 'close' event follows.
GwUpstreamError(u) ==
  /\ up[u].st \in {"connecting", "aborting", "open", "closing"}
  /\ up' = [up EXCEPT ![u].st = "errored"]
  /\ gwOut' = GwSend("error")
  /\ gwLast' = <<"upstreamError", u>>
  /\ UNCHANGED <<clientVars, storeVars, moreVars>>
  /\ UNCHANGED <<upMsgs, relayed>>
  /\ UNCHANGED <<gwWs, openaiWs, nextUp, pendingInit, clientMsgs, fwd>>

\* The close handler only logging the close
GwUpstreamClose_Silent(u, code) ==
  /\ up[u].st \in {"open", "closing", "errored"}
  /\ up[u].st = "errored" => code = 1006
  /\ up' = [up EXCEPT ![u].st = "closed",
                       ![u].endedClean = code = 1000 /\ gwWs = "open" /\ CanForward
                                         /\ u = openaiWs]
  /\ gwOut' = <<>>
  /\ gwLast' = <<"upstreamClose", code>>
  /\ UNCHANGED <<clientVars, storeVars, moreVars>>
  /\ UNCHANGED <<upMsgs, relayed>>
  /\ UNCHANGED <<gwWs, openaiWs, nextUp, pendingInit, clientMsgs, fwd>>

\* openaiWs.on('close'), 750-757
GwUpstreamClose(u, code) ==
  /\ up[u].st \in {"open", "closing", "errored"}
  /\ up[u].st = "errored" => code = 1006
  /\ up' = [up EXCEPT ![u].st = "closed",
                       ![u].endedClean = code = 1000 /\ gwWs = "open" /\ CanForward
                                         /\ u = openaiWs]
  /\ gwOut' = GwSend("disconnected")
  /\ gwLast' = <<"upstreamClose", code>>
  /\ UNCHANGED <<clientVars, storeVars, moreVars>>
  /\ UNCHANGED <<upMsgs, relayed>>
  /\ UNCHANGED <<gwWs, openaiWs, nextUp, pendingInit, clientMsgs, fwd>>

\* ws.on('error'), 790-795; the socket's 'close' event follows.
GwClientError ==
  /\ gwWs = "open"
  /\ gwWs' = "errored"
  /\ up' = CloseUpstream
  /\ gwOut' = <<>>
  /\ gwLast' = <<"clientError", 0>>
  /\ UNCHANGED <<clientVars, storeVars, moreVars>>
  /\ UNCHANGED <<upMsgs, relayed>>
  /\ UNCHANGED <<openaiWs, nextUp, pendingInit, clientMsgs, fwd>>

\* ws.on('close'), 783-788
GwClientClose ==
  /\ gwWs \in {"open", "errored"}
  /\ gwWs' = "closed"
  /\ up' = CloseUpstream
  /\ gwOut' = <<>>
  /\ gwLast' = <<"clientClose", 0>>
  /\ UNCHANGED <<clientVars, storeVars, moreVars>>
  /\ UNCHANGED <<upMsgs, relayed>>
  /\ UNCHANGED <<openaiWs, nextUp, pendingInit, clientMsgs, fwd>>

\* Ten seconds pass with the upstream handshake neither done nor rejected. The
\* init branch (712-759) sets no timer and passes no handshakeTimeout, so no
\* handler runs.
GwConnectTimeoutElapses(u) ==
  /\ up[u].st = "connecting"
  /\ gwOut' = <<>>
  /\ gwLast' = <<"tenSecondsPassed", u>>
  /\ UNCHANGED <<clientVars, storeVars, moreVars>>
  /\ UNCHANGED <<upMsgs, relayed>>
  /\ UNCHANGED <<gwWs, openaiWs, up, nextUp, pendingInit, clientMsgs, fwd>>

GwStep ==
  \/ \E tok \in {"missing", "badPrefix", "nonString", "valid"} : GwClientInit(tok)
  \/ GwInitResume
  \/ GwClientMessage
  \/ GwClientMalformed
  \/ \E u \in UpIds : GwUpstreamOpen(u)
  \/ \E u \in UpIds : GwUpstreamMessage(u)
  \/ \E u \in UpIds : GwUpstreamError(u)
  \/ \E u \in UpIds, code \in {1000, 1006} : GwUpstreamClose(u, code)
  \/ GwClientError
  \/ GwClientClose
  \/ \E u \in UpIds : GwConnectTimeoutElapses(u)

GwNext == GwStep

GwSpec == Init /\ [][GwNext]_vars

\* ======================================================================
\* The session store: the handlers, server.mjs 429-548
\* ======================================================================
\* A lookup that finds a session under every id
Known_Always(id) == TRUE

\* conversationSessions.get(id) finds a session: 451-452, 520-521
Known(id) == conversationSessions[id].exists

\* session.conversationEvents.push({timestamp, type, data}), 458-462
PushEvent(log, e) == Append(log, [type |-> e.type, data |-> e.data])

\* The history cut to its last three samples after the push
PushSentiment_KeepRecent(hist, s) ==
  LET all == Append(hist, [score |-> OrNum(s.score, 0),
                           emotion |-> OrStr(s.emotion, "neutral"),
                           confidence |-> OrNum(s.confidence, 5)])
  IN  SubSeq(all, IF Len(all) > 3 THEN Len(all) - 2 ELSE 1, Len(all))

\* session.sentimentHistory.push({...}), 477-483
PushSentiment(hist, s) ==
  Append(hist, [score |-> OrNum(s.score, 0),
                emotion |-> OrStr(s.emotion, "neutral"),
                confidence |-> OrNum(s.confidence, 5)])

\* The mean taken over the whole history
RecentSentiment_All(hist) == hist

\* sentimentHistory.slice(-3), 487
RecentSentiment(hist) ==
  SubSeq(hist, IF Len(hist) > 3 THEN Len(hist) - 2 ELSE 1, Len(hist))

\* reduce((sum, s) => sum + s.score, 0), 488
RECURSIVE SumScores(_)
SumScores(seq) ==
  IF seq = <<>> THEN 0 ELSE seq[1].score + SumScores(Tail(seq))

\* 488-496: avgScore > 0.3, avgScore < -0.2, with avgScore = sum / length
EngagementOf(hist) ==
  LET recent == RecentSentiment(hist)
      sum == SumScores(recent)
      n == Len(recent)
  IN  IF sum > 3 * n THEN "high"
      ELSE IF sum < (-2) * n THEN "stressed"
      ELSE "active"

\* event.data.newFocus with event.data undefined, 472: a TypeError
Throws(e) == e.type = "focus_change" /\ ~e.data

\* The handler counting every event as an interruption
AfterEvent_CountsAll(s, e) ==
  IF e = NoEvent THEN s
  ELSE LET pushed == [s EXCEPT !.conversationEvents = PushEvent(@, e),
                               !.interruptionCount = @ + 1]
       IN  IF e.type = "focus_change" /\ e.data
             THEN [pushed EXCEPT !.currentFocus = "Budget Details Discussion"]
             ELSE pushed

\* if (event) {...}, 457-474
AfterEvent(s, e) ==
  IF e = NoEvent THEN s
  ELSE LET pushed == [s EXCEPT !.conversationEvents = PushEvent(@, e)]
       IN  CASE e.type = "interruption" ->
                  [pushed EXCEPT !.interruptionCount = @ + 1]
             [] e.type = "focus_change" /\ e.data ->
                  [pushed EXCEPT !.currentFocus = "Budget Details Discussion"]
             [] OTHER -> pushed

\* The handler storing the sample and leaving the level as it is
AfterSentiment_KeepLevel(s, sn) ==
  IF ~sn.present THEN s
  ELSE [s EXCEPT !.sentimentHistory = PushSentiment(@, sn)]

\* if (sentiment) {...}, 476-497
AfterSentiment(s, sn) ==
  IF ~sn.present THEN s
  ELSE LET hist == PushSentiment(s.sentimentHistory, sn)
       IN  [s EXCEPT !.sentimentHistory = hist,
                     !.engagementLevel = EngagementOf(hist)]

\* if (backlogProgress) {...}, 499-502
AfterProgress(s, b) ==
  IF ~b.present THEN s ELSE [s EXCEPT !.completedItems = b.completed]

\* What the responses of 506-515 and 527-547 tell of the session.
Response(op, id, status, s) ==
  [op |-> op, id |-> id, status |-> status, completed |-> Len(s.completedItems),
   total |-> Len(s.backlogItems), level |-> s.engagementLevel]

\* loadContext().then(data => { contextData = data }), 389-394, with the two
\* context files read
ContextLoaded ==
  /\ contextData = "null"
  /\ contextData' = "loaded"
  /\ UNCHANGED <<conversationSessions, resp>>
  /\ UNCHANGED <<clientVars, gwVars, moreVars>>

\* POST /api/conversation/start, 429-446
StartSession(id) ==
  /\ ~Known(id)
  /\ LET session ==
           NewSession(IF contextData = "loaded" THEN BacklogItems ELSE <<>>)
     IN  /\ conversationSessions' = [conversationSessions EXCEPT ![id] = session]
         /\ resp' = Response("start", id, 200, session)
  /\ UNCHANGED contextData
  /\ UNCHANGED <<clientVars, gwVars, moreVars>>

\* POST /api/conversation/update, 449-516
UpdateSession(id, body) ==
  /\ IF ~Known(id)
       THEN /\ resp' = Response("update", id, 404, NoSession)
            /\ UNCHANGED conversationSessions
       ELSE LET session == conversationSessions[id]
                s1 == AfterEvent(session, body.event)
                s3 == AfterProgress(AfterSentiment(s1, body.sentiment),
                                    body.backlogProgress)
            IN  /\ body.event # NoEvent
                     => Len(session.conversationEvents) < MaxEvents
                /\ body.sentiment.present
                     => Len(session.sentimentHistory) < MaxSamples
                /\ IF Throws(body.event)
                     THEN /\ conversationSessions' =
                               [conversationSessions EXCEPT ![id] = s1]
                          /\ resp' = Response("update", id, 500, NoSession)
                     ELSE /\ conversationSessions' =
                               [conversationSessions EXCEPT ![id] = s3]
                          /\ resp' = Response("update", id, 200, s3)
  /\ UNCHANGED contextData
  /\ UNCHANGED <<clientVars, gwVars, moreVars>>

\* GET /api/analytics/summary/:sessionId, 519-548
Summary(id) ==
  /\ IF ~Known(id)
       THEN resp' = Response("summary", id, 404, NoSession)
       ELSE resp' = Response("summary", id, 200, conversationSessions[id])
  /\ UNCHANGED <<contextData, conversationSessions>>
  /\ UNCHANGED <<clientVars, gwVars, moreVars>>

StoreStep ==
  \/ ContextLoaded
  \/ \E id \in SessionIds : StartSession(id)
  \/ \E id \in RequestIds, body \in Bodies : UpdateSession(id, body)
  \/ \E id \in RequestIds : Summary(id)

StoreNext == StoreStep

StoreSpec == Init /\ [][StoreNext]_vars

\* ======================================================================
\* Sentiment scoring: analyzeSentiment, server.mjs 551-597
\* ======================================================================
\* Scores and confidences are counted in tenths, as in the session store.

stressKeywords ==
  {"urgent", "critical", "immediate", "problem", "issue", "concern", "worried"}
positiveKeywords ==
  {"good", "excellent", "great", "pleased", "satisfied", "approve"}
negativeKeywords ==
  {"bad", "terrible", "concerned", "disappointed", "unacceptable", "reject"}

\* The tokens the texts are made of: what split(/\s+/) leaves between two
\* stretches of whitespace. "issue," is the word with the comma that follows it.
Vocabulary == {"urgent", "Urgent", "issue,", "please", "approve", "reject"}

\* The texts followed: one to MaxWords tokens.
Texts == UNION {[1..n -> Vocabulary] : n \in 1..MaxWords}

\* A lower-casing that also drops the punctuation at the end of a token
ToLower_StripPunctuation(w) ==
  CASE w = "Urgent" -> "urgent"
    [] w = "issue," -> "issue"
    [] OTHER -> w

\* toLowerCase(), 556, on the tokens of Vocabulary
ToLower(w) == IF w = "Urgent" THEN "urgent" ELSE w

\* The emotion with the thresholds taken inclusively
EmotionOf_Inclusive(score, indicators) ==
  IF score >= 2 THEN "positive"
  ELSE IF score <= -2 THEN "negative"
  ELSE IF \E i \in DOMAIN indicators : indicators[i] = "stress" THEN "stressed"
  ELSE "neutral"

\* 575-577, on the running sum
EmotionOf(score, indicators) ==
  IF score > 2 THEN "positive"
  ELSE IF score < -2 THEN "negative"
  ELSE IF \E i \in DOMAIN indicators : indicators[i] = "stress" THEN "stressed"
  ELSE "neutral"

\* The score returned as the running sum
ClampScore_None(score) == score

\* Math.max(-1, Math.min(1, score)), 580
ClampScore(score) ==
  LET capped == IF score < 10 THEN score ELSE 10
  IN  IF capped > -10 THEN capped ELSE -10

\* Math.min(0.8, Math.abs(score) + 0.2), 582
ConfidenceOf(score) ==
  LET raised == (IF score < 0 THEN -score ELSE score) + 2
  IN  IF raised < 8 THEN raised ELSE 8

\* [...new Set(indicators)], 583: the first occurrence of each tag, in order
RECURSIVE Unique(_)
Unique(seq) ==
  IF seq = <<>> THEN <<>>
  ELSE LET rest == Unique(SubSeq(seq, 1, Len(seq) - 1))
           last == seq[Len(seq)]
       IN  IF \E i \in DOMAIN rest : rest[i] = last THEN rest
           ELSE Append(rest, last)

\* The body of the loop for one word, 562-574
ScanWord(acc, word) ==
  LET a1 == IF word \in stressKeywords
              THEN [score |-> acc.score - 3,
                    indicators |-> Append(acc.indicators, "stress")]
              ELSE acc
      a2 == IF word \in positiveKeywords
              THEN [score |-> a1.score + 4,
                    indicators |-> Append(a1.indicators, "positive")]
              ELSE a1
  IN  IF word \in negativeKeywords
        THEN [score |-> a2.score - 4,
              indicators |-> Append(a2.indicators, "negative")]
        ELSE a2

\* for (const word of words), 561-575
RECURSIVE Scan(_, _)
Scan(words, acc) ==
  IF words = <<>> THEN acc
  ELSE Scan(Tail(words), ScanWord(acc, ToLower(Head(words))))

\* analyzeSentiment, 551-586
analyzeSentiment(t) ==
  LET sum == Scan(t, [score |-> 0, indicators |-> <<>>])
  IN  [status |-> 200,
       score |-> ClampScore(sum.score),
       emotion |-> EmotionOf(sum.score, sum.indicators),
       confidence |-> ConfidenceOf(sum.score),
       indicators |-> Unique(sum.indicators)]

\* POST /api/sentiment/analyze, 589-597, answering the request that carries
\* text: a missing, empty or non-string text (<<>> here) is refused.
AnalyzeRequest ==
  /\ sentiment = NoSentimentResult
  /\ sentiment' = IF text = <<>>
                    THEN [NoSentimentResult EXCEPT !.status = 400]
                    ELSE analyzeSentiment(text)
  /\ UNCHANGED text
  /\ UNCHANGED <<clientVars, gwVars, storeVars, brokerVars, audioVars, pcmVars>>

SentimentStep == AnalyzeRequest

SentimentNext == SentimentStep

\* A request with any of the texts has arrived.
SentimentStart ==
  /\ ClientInit /\ GwInit /\ StoreInit /\ BrokerInit /\ AudioInit /\ PcmInit
  /\ text \in Texts \cup {<<>>}
  /\ sentiment = NoSentimentResult

SentimentSpec == SentimentStart /\ [][SentimentNext]_vars

\* ======================================================================
\* The credential broker: /api/ephemeral-token and the start of the
\* process, server.mjs 396-404, 646-683, 798-801
\* ======================================================================

\* The statuses the identity provider answers with: created, bad request,
\* unauthorized.
ProviderStatuses == {200, 400, 401}

\* req.body.model: none (the default model is taken), a model the provider
\* supports, one it does not know.
Scopes == {"absent", "supported", "unsupported"}

\* The check of OPENAI_API_KEY (399-403) warns, then server.listen (798-801).
ServerStart ==
  /\ server = "starting"
  /\ server' = "listening"
  /\ UNCHANGED <<apiKey, mint>>
  /\ UNCHANGED <<clientVars, gwVars, storeVars, sentimentVars, audioVars,
                 pcmVars>>

\* POST /api/ephemeral-token up to 'await fetch', 646-667
MintReceive(r, scope) ==
  /\ server = "listening"
  /\ mint[r].pc = "free"
  /\ mint' = [mint EXCEPT ![r] =
       IF apiKey = "missing"
         THEN [@ EXCEPT !.pc = "done", !.scope = scope, !.status = 500]
         ELSE [@ EXCEPT !.pc = "awaitFetch", !.scope = scope, !.calls = @ + 1]]
  /\ UNCHANGED <<apiKey, server>>
  /\ UNCHANGED <<clientVars, gwVars, storeVars, sentimentVars, audioVars,
                 pcmVars>>

\* fetch rejects (no answer from the provider): the catch, 679-682
MintFetchFails(r) ==
  /\ mint[r].pc = "awaitFetch"
  /\ mint' = [mint EXCEPT ![r].pc = "done", ![r].status = 500]
  /\ UNCHANGED <<apiKey, server>>
  /\ UNCHANGED <<clientVars, gwVars, storeVars, sentimentVars, audioVars,
                 pcmVars>>

\* fetch resolves with the provider's answer; the handler goes on to
\* 'await upstream.json()', 669. json: the body of the answer is JSON.
MintFetchResolves(r, st, json) ==
  /\ mint[r].pc = "awaitFetch"
  /\ mint' = [mint EXCEPT ![r].pc = "awaitJson", ![r].upstream = st,
                          ![r].json = json]
  /\ UNCHANGED <<apiKey, server>>
  /\ UNCHANGED <<clientVars, gwVars, storeVars, sentimentVars, audioVars,
                 pcmVars>>

\* upstream.json() settles, 669-682: a body that is no JSON makes it reject and
\* the catch answers 500; otherwise the answer carries the provider's status if
\* that is no success, and 200 if it is.
MintJsonSettles(r) ==
  /\ mint[r].pc = "awaitJson"
  /\ mint' = [mint EXCEPT ![r].pc = "done",
                          ![r].status = IF ~mint[r].json THEN 500
                                        ELSE mint[r].upstream]
  /\ UNCHANGED <<apiKey, server>>
  /\ UNCHANGED <<clientVars, gwVars, storeVars, sentimentVars, audioVars,
                 pcmVars>>

BrokerStep ==
  \/ ServerStart
  \/ \E r \in MintIds, scope \in Scopes : MintReceive(r, scope)
  \/ \E r \in MintIds : MintFetchFails(r)
  \/ \E r \in MintIds, st \in ProviderStatuses, json \in BOOLEAN :
       MintFetchResolves(r, st, json)
  \/ \E r \in MintIds : MintJsonSettles(r)

BrokerNext == BrokerStep

\* The process is started with or without OPENAI_API_KEY in its environment.
BrokerStart ==
  /\ ClientInit /\ GwInit /\ StoreInit /\ SentimentInit /\ AudioInit /\ PcmInit
  /\ apiKey \in {"set", "missing"}
  /\ server = "starting"
  /\ mint = [r \in MintIds |-> NoMint]

BrokerSpec == BrokerStart /\ [][BrokerNext]_vars

\* ======================================================================
\* The conversion to 16-bit PCM: convertToPCM16, websocket-handler.ts 329-352
\* ======================================================================
\* A sample x is held as the integer 2 * 32768 * x, its product with 32768 in
\* halves: x = 1.0 is 2 * FullScale, and an odd number is a product with a
\* fraction of one half.

\* The factor of line 343.
FullScale == 32768
\* The least and the greatest value of an Int16Array element, line 343.
Int16Min == -32768
Int16Max == 32767

\* The samples the frames are made of: around zero, around full scale on both
\* sides, and far beyond it.
Around(n) == (n - 3)..(n + 3)
Samples ==
  Around(0) \cup Around(2 * FullScale) \cup Around(-2 * FullScale)
    \cup {4 * FullScale, -4 * FullScale, 6 * FullScale, -6 * FullScale}
Frames == UNION {[1..n -> Samples] : n \in 1..MaxFrame}

Min(a, b) == IF a <= b THEN a ELSE b
Max(a, b) == IF a >= b THEN a ELSE b

\* Math.max(-32768, Math.min(32767, channelData[i] * 32768)), in halves
ClampSample_None(n) == n
ClampSample(n) == Max(2 * Int16Min, Min(2 * Int16Max, n))

\* The store into an Int16Array element: the fraction is cut off (towards zero)
\* and the integer is taken modulo 2^16 into Int16Min..Int16Max.
Truncate(h) == IF h >= 0 THEN h \div 2 ELSE -((-h) \div 2)
ToInt16(i) == ((i - Int16Min) % (2 * FullScale)) + Int16Min

SampleToPCM16(n) == ToInt16(Truncate(ClampSample(n)))

\* The loop 341-344.
convertToPCM16(frame) == [i \in DOMAIN frame |-> SampleToPCM16(frame[i])]

\* convertToPCM16 on the decoded chunk.
ConvertFrame ==
  /\ channelData # <<>>
  /\ pcm16 = <<>>
  /\ pcm16' = convertToPCM16(channelData)
  /\ UNCHANGED channelData
  /\ UNCHANGED <<clientVars, gwVars, storeVars, sentimentVars, brokerVars,
                 audioVars>>

PcmStep == ConvertFrame

PcmNext == PcmStep

\* decodeAudioData gave a chunk of samples.
PcmStart ==
  /\ ClientInit /\ GwInit /\ StoreInit /\ SentimentInit /\ BrokerInit
  /\ AudioInit
  /\ channelData \in Frames
  /\ pcm16 = <<>>

PcmSpec == PcmStart /\ [][PcmNext]_vars

\* ======================================================================
\* Properties of the client handler (Spec)
\* ======================================================================
HasStatus(seq, st) == \E i \in DOMAIN seq : seq[i].status = st
HasMsg(seq, m) == \E i \in DOMAIN seq : seq[i].msg = m
IsError(e) == e.status = "error"
Count(seq, P(_)) == Cardinality({i \in DOMAIN seq : P(seq[i])})

\* C1 (as stated): in one session, from connect() to disconnect(), the number of
\* reconnection attempts attemptReconnect started never exceeds
\* maxReconnectAttempts.
C1_SessionAttemptsBounded ==
  phase = "active" => attemptsStarted <= maxReconnectAttempts

\* C1 (amended): the number of reconnection attempts started since connect() last
\* succeeded never exceeds maxReconnectAttempts, and reconnectAttempts is that
\* number.
C1_AttemptsSinceConnectedBounded ==
  /\ attemptsSinceConnected <= maxReconnectAttempts
  /\ reconnectAttempts = attemptsSinceConnected

\* The fifth attempt in a row has been started in a running session.
C1_Witness ==
  /\ phase = "active"
  /\ attemptsSinceConnected = maxReconnectAttempts
  /\ \E t \in TaskIds : task[t].pc = "backoff" /\ task[t].n = maxReconnectAttempts

\* C2: when the retry bound is exhausted (the attempt numbered
\* maxReconnectAttempts fails), the 'error' status is reported to the status
\* callback exactly once.
C2_ErrorReportedOnceAtExhaustion ==
  HasMsg(statusLog, "MaxReached") => Count(statusLog, IsError) = 1

\* C3: while the session is Active, an upstream close with a non-clean close
\* code starts exactly one reconnect attempt and reports the 'connecting' status.
C3_UncleanUpstreamCloseReconnects ==
  [][(phase = "active" /\ isConnectedToOpenAI
        /\ lastStep' = <<"RecvDisconnected", 1006>>)
      => (attemptsStarted' = attemptsStarted + 1
            /\ HasStatus(statusLog', "connecting"))]_vars

\* C5: after disconnect() returned, no connect() runs and no new channel is
\* opened for the session.
C5_NoConnectAfterDisconnect ==
  [][phase = "stopped"
      => /\ ~HasMsg(statusLog', "Connecting")
         /\ \A c \in ChanIds : chan[c].st = "closed" => chan'[c].st = "closed"]_vars

\* C8: a channel that opened has been sent an init message, and that was the
\* first message sent on it.
C8_InitSentFirstOnOpen ==
  \A c \in ChanIds : chan[c].st = "open" => chan[c].first = "init"

FrameDropped(step) == step[1] \in {"AudioChunkDropped", "AudioDeltaDropped"}

\* C28: a captured chunk that cannot be transcoded, or an audio delta that
\* cannot be decoded, is dropped and nothing more: nothing is sent, no status is
\* reported, the channel and its state, isConnectedToOpenAI and
\* reconnectAttempts stay as they are, and the next chunk can be sent if this
\* one could.
C28_FrameFailureIsLocal ==
  [][FrameDropped(lastStep')
      => /\ UNCHANGED <<ws, chan, isConnectedToOpenAI, reconnectAttempts>>
         /\ statusLog' = <<>>
         /\ CanSend' = CanSend]_vars

C28_Witness ==
  /\ lastStep[1] = "AudioDeltaDropped"
  /\ failedFrames >= 1
  /\ CanSend

\* C29: the third captured chunk in a row that cannot be transcoded is reported
\* as an error and starts a reconnect attempt.
C29_ThreeFailuresEscalate ==
  [][(failedFrames = 2 /\ failedFrames' = 3)
      => /\ HasStatus(statusLog', "error")
         /\ attemptsStarted' = attemptsStarted + 1]_vars

\* An attemptReconnect() call starts in this step and waits in task t.
Starts(t) == task[t].pc # "backoff" /\ task'[t].pc = "backoff"

\* C31: the reconnect attempt numbered k since the count was last reset, k from
\* 1 to maxReconnectAttempts, waits reconnectDelay * k before it calls
\* connect(): the delay does not decrease with k and is at most
\* maxReconnectAttempts * reconnectDelay.
C31_BackoffDelayLinear ==
  [][/\ \A t \in TaskIds :
          Starts(t) => /\ task'[t].n = attemptsSinceConnected'
                       /\ task'[t].n \in 1..maxReconnectAttempts
     /\ lastStep'[1] = "BackoffElapsed"
          => \E t \in TaskIds :
               /\ task[t].pc = "backoff" /\ task'[t].pc = "gum"
               /\ lastStep'[2] = reconnectDelay * task[t].n
               /\ lastStep'[2] <= maxReconnectAttempts * reconnectDelay]_vars

\* The fifth attempt in a row waited five times the base delay.
C31_Witness ==
  lastStep = <<"BackoffElapsed", maxReconnectAttempts * reconnectDelay>>

\* C33: whenever isConnectedToOpenAI is true, the channel this.ws names is open,
\* was sent 'connected' by the proxy and was not sent 'disconnected' since; so
\* the messages the handler sends go to a channel whose proxy is ready.
C33_ConnectedMeansChannelReady ==
  isConnectedToOpenAI
    => (ws # 0 /\ chan[ws].st = "open" /\ chan[ws].gw = "active")

\* C34: the append messages go out in the order their chunks were captured: a
\* chunk that is sent was not passed by the message of a chunk captured after
\* it.
C34_ChunksSentInCaptureOrder ==
  [][\A i \in DOMAIN transcoding :
       lastStep' = <<"ChunkAppended", i>> => ~transcoding[i].late]_vars

\* C35: the status 'connected' is passed to the status callback only in the step
\* that receives the proxy's 'connected' message on the channel this.ws names.
C35_ConnectedStatusOnlyAfterProxyConnected ==
  [][HasStatus(statusLog', "connected")
      => (ws # 0 /\ lastStep' = <<"RecvConnected", ws>>)]_vars

\* C36: when disconnect() has returned, this.ws is null and the channel it named
\* is closing with the clean handshake, there is no audio context, isRecording
\* and isConnectedToOpenAI are false, reconnectAttempts is 0, and no recorder
\* of the handler is recording.
C36_DisconnectResetsAll ==
  [][lastStep'[1] = "Disconnect"
      => /\ ws' = 0
         /\ ws # 0 => chan'[ws].st \in {"closed", "closing"}
         /\ ~audioContext'
         /\ ~isRecording'
         /\ ~isConnectedToOpenAI'
         /\ reconnectAttempts' = 0
         /\ ~Capturing']_vars

\* ======================================================================
\* Properties of the proxy (GwSpec)
\* ======================================================================
Sends(seq, t) == \E i \in DOMAIN seq : seq[i] = t
UpOpens(u) == up[u].st = "connecting" /\ up'[u].st = "open"

\* C4: once the client channel closed or errored, no upstream connection of that
\* client is being opened or is open.
C4_ClientGoneClosesUpstream ==
  gwWs # "open" => \A u \in UpIds : up[u].st \notin {"connecting", "open"}

\* C6: a client message is forwarded only on the upstream socket the proxy holds
\* for the client's init, and only once that socket is open.
C6_ForwardOnlyWhenUpstreamOpen ==
  [][\A u \in UpIds :
       fwd'[u] # fwd[u] => (u = openaiWs /\ up[u].st = "open")]_vars

\* A message that came before the upstream socket was open was refused, and a
\* later one was forwarded.
C6_Witness ==
  \E u \in UpIds : fwd[u] = <<2>> /\ up[u].st = "open"

\* C7: an init with a missing or invalid credential is answered with an error,
\* opens no upstream connection and closes the client channel.
C7_InvalidInitClosesChannel ==
  gwLast[1] = "invalidInit"
    => (gwOut = <<"error">> /\ gwWs # "open")

\* C9: when an upstream socket opens, 'connected' is sent to the client, and
\* 'connected' is sent in no other step.
C9_ConnectedIffUpstreamOpened ==
  [][/\ \A u \in UpIds : UpOpens(u) => gwOut' = <<"connected">>
     /\ Sends(gwOut', "connected") => \E u \in UpIds : UpOpens(u)]_vars

\* The upstream socket of a client that is still there opened, and 'connected'
\* was sent.
C9_Witness ==
  /\ gwWs = "open"
  /\ gwOut = <<"connected">>
  /\ openaiWs # 0 /\ up[openaiWs].st = "open"

\* C10: an upstream handshake that has not succeeded when the connect timeout
\* (10 s) passes does not leave the session awaiting the upstream: the client is
\* told of the error.
C10_NoAwaitingPastTimeout ==
  gwLast[1] = "tenSecondsPassed"
    => (gwOut = <<"error">> /\ up[gwLast[2]].st # "connecting")

\* The session is Active: the client is there and its upstream socket is open.
Active == gwWs = "open" /\ openaiWs # 0 /\ up[openaiWs].st = "open"

\* C11: while the session is Active, a non-init client message is sent on the
\* upstream socket and a message of the upstream socket is sent to the client, in
\* the step that receives it, once, after the ones received before it; nothing
\* else is ever added to or taken from what was forwarded.
C11_RelayExactlyOnceInOrder ==
  [][/\ (Active /\ gwLast'[1] = "message")
          => fwd' = [fwd EXCEPT ![openaiWs] = Append(@, clientMsgs + 1)]
     /\ (Active /\ gwLast' = <<"upstreamMessage", openaiWs>>)
          => (relayed' = Append(relayed, upMsgs + 1) /\ gwOut' = <<"upstream">>)
     /\ fwd' # fwd => gwLast' = <<"message", clientMsgs + 1>>
     /\ relayed' # relayed => gwLast'[1] = "upstreamMessage"]_vars

\* Two client messages and two upstream messages went through an Active session.
C11_Witness ==
  /\ Active
  /\ fwd[openaiWs] = <<1, 2>>
  /\ relayed = <<1, 2>>

\* C12: once the upstream socket of an Active session closed cleanly, the client
\* connection is done: no message is relayed in either direction and no upstream
\* socket is asked for or created on it again.
C12_ClosedIsTerminal ==
  [][(\E u \in UpIds : up[u].endedClean)
       => /\ fwd' = fwd
          /\ relayed' = relayed
          /\ nextUp' = nextUp
          /\ pendingInit' <= pendingInit]_vars

\* C13: while the client is there, an upstream close, an upstream error, an
\* invalid init, an unparseable message and a message that is not forwarded are
\* each answered to the client in the same step, and only the client ends its own
\* channel.
C13_NoSilentDrop ==
  [][gwWs = "open"
       => /\ gwLast'[1] \in {"upstreamError", "invalidInit", "malformed"}
               => Sends(gwOut', "error")
          /\ gwLast'[1] = "upstreamClose" => Sends(gwOut', "disconnected")
          /\ (gwLast'[1] = "message" /\ fwd' = fwd) => Sends(gwOut', "error")
          /\ gwWs' # gwWs => gwLast'[1] \in {"clientError", "clientClose"}]_vars

\* The upstream socket of a client that is there closed, and the client was told.
C13_Witness ==
  /\ gwWs = "open"
  /\ gwLast[1] = "upstreamClose"
  /\ gwOut = <<"disconnected">>
  /\ clientMsgs > 0

\* C32: of the upstream sockets created for the client connection, at most one
\* is being opened or is open at any time.
C32_AtMostOneUpstream ==
  Cardinality({u \in UpIds : up[u].st \in {"connecting", "open"}}) <= 1

\* ======================================================================
\* Properties of the session store (StoreSpec)
\* ======================================================================
Range(seq) == {seq[i] : i \in DOMAIN seq}
IsPrefix(a, b) == Len(a) <= Len(b) /\ SubSeq(b, 1, Len(a)) = a
Stored == {id \in RequestIds : conversationSessions[id].exists}

\* C14: in every session, every completed item is one of the session's agenda
\* (backlog) items.
C14_CompletedWithinBacklog ==
  \A id \in Stored :
    Range(conversationSessions[id].completedItems)
      \subseteq Range(conversationSessions[id].backlogItems)

C16_SamplesInRange ==
  \A id \in Stored :
    \A i \in DOMAIN conversationSessions[id].sentimentHistory :
      LET sample == conversationSessions[id].sentimentHistory[i]
      IN  /\ sample.score \in -10..10
          /\ sample.confidence \in 0..10
          /\ sample.emotion \in {"positive", "negative", "stressed", "neutral"}

\* C18: an update or a summary request that names an id the store holds no
\* session for is answered 404 and changes nothing in the store.
C18_UnknownIdRejected ==
  [][\A id \in RequestIds :
       (/\ ~conversationSessions[id].exists
        /\ resp'.op \in {"update", "summary"}
        /\ resp'.id = id)
         => (resp'.status = 404 /\ conversationSessions' = conversationSessions)]_vars

\* An update for an unknown id was refused while a session with samples and an
\* event was stored.
C18_Witness ==
  /\ resp.op = "update" /\ resp.status = 404
  /\ \E id \in Stored :
       /\ conversationSessions[id].sentimentHistory # <<>>
       /\ conversationSessions[id].conversationEvents # <<>>

\* The scores of the last three samples (of all, if fewer), added up.
RECURSIVE SumAt(_, _)
SumAt(hist, I) ==
  IF I = {} THEN 0
  ELSE LET i == CHOOSE x \in I : TRUE
       IN  hist[i].score + SumAt(hist, I \ {i})
LastThree(hist) == {i \in DOMAIN hist : i > Len(hist) - 3}

C20_FreshSessionSummary ==
  [][(/\ resp.op = "start"
      /\ resp'.op = "summary"
      /\ resp'.id = resp.id
      /\ Len(conversationSessions[resp.id].backlogItems) = 5)
       => (/\ resp'.status = 200
           /\ resp'.completed = 0
           /\ resp'.total = 5
           /\ resp'.level = "baseline")]_vars

\* A session with 5 agenda items was summarised before any update.
C20_Witness ==
  /\ resp.op = "summary" /\ resp.status = 200
  /\ resp.total = 5 /\ resp.completed = 0 /\ resp.level = "baseline"
  /\ \A id \in Stored :
       /\ conversationSessions[id].conversationEvents = <<>>
       /\ conversationSessions[id].sentimentHistory = <<>>

\* The 'interruption' events of an event log.
Interruptions(log) == Cardinality({i \in DOMAIN log : log[i].type = "interruption"})

C37_FailedUpdateChangesNothing ==
  [][(resp'.op = "update" /\ resp'.status >= 400)
      => conversationSessions' = conversationSessions]_vars

\* The level of the mean of the last three scores (of all, if fewer).
Classification(hist) ==
  LET n == Cardinality(LastThree(hist))
      sum == SumAt(hist, LastThree(hist))
  IN  IF sum > 3 * n THEN "high"
      ELSE IF sum < (-2) * n THEN "stressed" ELSE "active"

Matches(t, keywords) == Cardinality({i \in DOMAIN t : ToLower(t[i]) \in keywords})

\* The sum of the reference scorer, in tenths.
RefSum(t) ==
  4 * Matches(t, positiveKeywords) - 3 * Matches(t, stressKeywords)
    - 4 * Matches(t, negativeKeywords)

\* The tags of the reference scorer.
RefTags(t) ==
  {tag \in {"stress", "positive", "negative"} :
     \/ tag = "stress" /\ Matches(t, stressKeywords) > 0
     \/ tag = "positive" /\ Matches(t, positiveKeywords) > 0
     \/ tag = "negative" /\ Matches(t, negativeKeywords) > 0}

\* C22: for every text analysed, the score is within [-1, 1] and the confidence
\* within [0, 0.8].
C22_ScoreAndConfidenceClamped ==
  sentiment.status = 200
    => (sentiment.score \in -10..10 /\ sentiment.confidence \in 0..8)

\* A text whose matches add up beyond the range was analysed.
C22_Witness ==
  /\ sentiment.status = 200
  /\ RefSum(text) > 10
  /\ sentiment.score = 10 /\ sentiment.confidence = 8

UrgentIssueText == <<"urgent", "issue,", "please", "approve">>

\* C24 (as stated): for the text "urgent issue, please approve" the score is
\* -0.2, 'urgent', 'issue' and 'approve' having matched.
C24_ScoreIsMinusTwoTenths ==
  (text = UrgentIssueText /\ sentiment.status = 200) => sentiment.score = -2

\* C24 (amended): for the text "urgent issue, please approve" only 'urgent' and
\* 'approve' match, the token 'issue,' does not: the score is 0.1, the emotion
\* stressed, the confidence 0.3 and the indicators stress, positive.
C24_ScoreIsOneTenth ==
  (text = UrgentIssueText /\ sentiment.status = 200)
    => /\ sentiment.score = 1
       /\ sentiment.emotion = "stressed"
       /\ sentiment.confidence = 3
       /\ sentiment.indicators = <<"stress", "positive">>

\* The text "urgent issue, please approve" was analysed.
C24_Witness ==
  text = UrgentIssueText /\ sentiment.status = 200
\* ======================================================================
\* Properties of the credential broker (BrokerSpec)
\* ======================================================================

\* C25: a request for a token with a scope that is not supported is answered
\* at once with an error, and no call goes to the identity provider for it.
C25_UnsupportedScopeFailsFast ==
  \A r \in MintIds :
    (mint[r].pc # "free" /\ mint[r].scope = "unsupported") =>
      /\ mint[r].calls = 0
      /\ mint[r].pc = "done"
      /\ mint[r].status \notin {0, 200}

\* C26: a request for a token makes at most one call to the identity provider,
\* and when the provider rejects the call, the answer to the caller carries the
\* provider's status.
C26_RejectionSurfacedOnce ==
  \A r \in MintIds :
    /\ mint[r].calls <= 1
    /\ (mint[r].pc = "done" /\ mint[r].upstream \notin {0, 200}) =>
         mint[r].status = mint[r].upstream

\* C27: a process started without the server secret does not come to listen and
\* answers no request.
C27_MissingSecretStopsStartup ==
  apiKey = "missing" =>
    /\ server # "listening"
    /\ \A r \in MintIds : mint[r].pc = "free"

\* ======================================================================
\* Properties of the conversion to 16-bit PCM (PcmSpec)
\* ======================================================================
Converted == pcm16 # <<>>

\* C30: every converted sample lies within -32768..32767, is 32767 for a sample
\* at or above full scale and -32768 for one at or below negative full scale,
\* and of two samples the greater one is not converted to the lesser value.
C30_ConversionClamps ==
  Converted =>
    /\ \A i \in DOMAIN pcm16 :
         /\ pcm16[i] \in Int16Min..Int16Max
         /\ channelData[i] >= 2 * FullScale => pcm16[i] = Int16Max
         /\ channelData[i] <= -2 * FullScale => pcm16[i] = Int16Min
    /\ \A i, j \in DOMAIN pcm16 :
         channelData[i] <= channelData[j] => pcm16[i] <= pcm16[j]

C30_Witness ==
  /\ Converted
  /\ Len(channelData) = 2
  /\ channelData[1] = 2 * FullScale - 1
  /\ channelData[2] > 2 * FullScale
  /\ pcm16 = <<Int16Max, Int16Max>>


====
